---------------------------- MODULE Spec2Model ----------------------------
(***************************************************************************)
(* Model of the locale bulk translator: the streaming merge engine         *)
(* (StreamingTranslationManager), the bulk paths of TranslationManager,    *)
(* and the pure tree functions they share (diff, flatten, merge,           *)
(* response normalisation).                                                *)
(*                                                                         *)
(* JSON values are tagged records.  An object keeps its entries in a       *)
(* sequence, in insertion order, as a JavaScript object does.  A key is a  *)
(* sequence of one-character strings, so that the dot-joined paths, the    *)
(* split on '.', startsWith and the regular expressions of the source are  *)
(* computed character by character.                                        *)
(***************************************************************************)
EXTENDS Integers, Sequences, FiniteSets, TLC

-----------------------------------------------------------------------------
(* JSON values *)

Str(s) == [t |-> "str", s |-> s, kv |-> <<>>]
Null == [t |-> "null", s |-> "", kv |-> <<>>]
Undef == [t |-> "undef", s |-> "", kv |-> <<>>]
Thrown == [t |-> "throw", s |-> "", kv |-> <<>>]
Obj(kv) == [t |-> "obj", s |-> "", kv |-> kv]
EmptyObj == Obj(<<>>)
E(k, v) == [k |-> k, v |-> v]

IsObj(v) == v.t = "obj"

\* The elements of a sequence.
Range(seq) == {seq[i] : i \in 1..Len(seq)}

\* JavaScript truthiness of a value: undefined, null and '' are falsy.
Truthy(v) == ~(v.t = "undef" \/ v.t = "null" \/ (v.t = "str" /\ v.s = ""))

RECURSIVE IndexFrom(_, _, _)
IndexFrom(kv, k, i) ==
    IF i > Len(kv) THEN 0
    ELSE IF kv[i].k = k THEN i
    ELSE IndexFrom(kv, k, i + 1)

IndexOf(kv, k) == IndexFrom(kv, k, 1)

\* key in o
Has(o, k) == IndexOf(o.kv, k) # 0

\* o[k]; a property read on a string primitive or on a missing key is undefined
Get(o, k) ==
    IF IsObj(o) /\ Has(o, k) THEN o.kv[IndexOf(o.kv, k)].v ELSE Undef

\* o[k] = v: an existing key keeps its position, a new key is appended
Put(o, k, v) ==
    IF Has(o, k)
    THEN Obj([o.kv EXCEPT ![IndexOf(o.kv, k)] = E(k, v)])
    ELSE Obj(Append(o.kv, E(k, v)))

\* delete o[k]
Del(o, k) ==
    IF Has(o, k)
    THEN LET i == IndexOf(o.kv, k)
         IN Obj(SubSeq(o.kv, 1, i - 1) \o SubSeq(o.kv, i + 1, Len(o.kv)))
    ELSE o

RECURSIVE AssignFrom(_, _, _)
AssignFrom(dst, src, i) ==
    IF i > Len(src.kv) THEN dst
    ELSE AssignFrom(Put(dst, src.kv[i].k, src.kv[i].v), src, i + 1)

\* Object.assign(dst, src)
ObjectAssign(dst, src) == AssignFrom(dst, src, 1)

-----------------------------------------------------------------------------
(* Strings of keys and paths *)

Dot == <<".">>

\* prefix ? `${prefix}.${key}` : key
JoinPath(prefix, key) == IF prefix # <<>> THEN prefix \o Dot \o key ELSE key

\* s.startsWith(p)
StartsWith(s, p) == Len(p) <= Len(s) /\ SubSeq(s, 1, Len(p)) = p

RECURSIVE SplitFrom(_, _, _, _)
SplitFrom(s, i, cur, acc) ==
    IF i > Len(s) THEN Append(acc, cur)
    ELSE IF s[i] = "." THEN SplitFrom(s, i + 1, <<>>, Append(acc, cur))
    ELSE SplitFrom(s, i + 1, Append(cur, s[i]), acc)

\* s.split('.')
Split(s) == SplitFrom(s, 1, <<>>, <<>>)

-----------------------------------------------------------------------------
(* Tree functions shared by the managers *)

RECURSIVE SetAt(_, _, _, _)
SetAt(current, keys, i, value) ==
    IF ~IsObj(current) THEN Thrown
    ELSE IF i = Len(keys) THEN Put(current, keys[i], value)
    ELSE LET child == IF Has(current, keys[i]) THEN Get(current, keys[i])
                      ELSE EmptyObj
             sub == SetAt(child, keys, i + 1, value)
         IN IF sub = Thrown THEN Thrown ELSE Put(current, keys[i], sub)

\* setNestedProperty(obj, path, value): the object after the call, or Thrown
\* when the walk meets a string or null where it needs an object ('in' on a
\* primitive, or a property write on a primitive in a strict-mode module).
setNestedProperty(obj, path, value) == SetAt(obj, Split(path), 1, value)

RECURSIVE DelAt(_, _, _)
DelAt(current, keys, i) ==
    IF i = Len(keys)
    THEN IF IsObj(current) THEN Del(current, keys[i])
         ELSE IF current.t = "null" THEN Thrown
         ELSE current
    ELSE IF ~IsObj(current) THEN Thrown
    ELSE IF ~Has(current, keys[i]) THEN current
    ELSE LET sub == DelAt(Get(current, keys[i]), keys, i + 1)
         IN IF sub = Thrown THEN Thrown ELSE Put(current, keys[i], sub)

\* deleteNestedProperty(obj, path)
deleteNestedProperty(obj, path) == DelAt(obj, Split(path), 1)

RECURSIVE flattenNestedContent(_, _)
flattenNestedContent(nestedContent, prefix) ==
    LET RECURSIVE Loop(_, _)
        Loop(i, flattened) ==
            IF i > Len(nestedContent.kv) THEN flattened
            ELSE LET key == nestedContent.kv[i].k
                     value == nestedContent.kv[i].v
                     fullKey == JoinPath(prefix, key)
                 IN IF IsObj(value)
                    THEN Loop(i + 1, ObjectAssign(flattened,
                                   flattenNestedContent(value, fullKey)))
                    ELSE Loop(i + 1, Put(flattened, fullKey, value))
    IN Loop(1, EmptyObj)

RECURSIVE MergeFrom(_, _, _)
MergeFrom(merged, flat, i) ==
    IF merged = Thrown \/ i > Len(flat.kv) THEN merged
    ELSE LET key == flat.kv[i].k
             value == flat.kv[i].v
         IN IF value = Null
            THEN MergeFrom(deleteNestedProperty(merged, key), flat, i + 1)
            ELSE MergeFrom(setNestedProperty(merged, key, value), flat, i + 1)

\* A merge that starts from targetContent instead of baseContent.
mergeContentsOntoTarget(baseContent, targetContent, translatedContent) ==
    MergeFrom(targetContent, flattenNestedContent(translatedContent, <<>>), 1)

\* mergeContents(baseContent, targetContent, translatedContent): a copy of
\* baseContent with the flattened translatedContent applied; targetContent is
\* not read.
mergeContents(baseContent, targetContent, translatedContent) ==
    MergeFrom(baseContent, flattenNestedContent(translatedContent, <<>>), 1)

\* An unflattenContent that would keep each flat key as one key.
unflattenContentWithoutSplit(flatContent) == flatContent

RECURSIVE UnflattenFrom(_, _, _)
UnflattenFrom(nested, flat, i) ==
    IF nested = Thrown \/ i > Len(flat.kv) THEN nested
    ELSE UnflattenFrom(SetAt(nested, Split(flat.kv[i].k), 1, flat.kv[i].v),
                       flat, i + 1)

\* unflattenContent(flatContent)
unflattenContent(flatContent) == UnflattenFrom(EmptyObj, flatContent, 1)

RECURSIVE NestedFrom(_, _, _)
NestedFrom(o, parts, i) ==
    IF i > Len(parts) THEN o
    ELSE IF Truthy(o) THEN NestedFrom(Get(o, parts[i]), parts, i + 1)
    ELSE Undef

\* getNestedValue(obj, path)
getNestedValue(obj, path) == NestedFrom(obj, Split(path), 1)

-----------------------------------------------------------------------------
(* Change set: deepCompare (streaming manager, translateFile) *)

\* typeof v === 'object' (true of null as well)
TypeofObject(v) == v.t = "obj" \/ v.t = "null"

\* The leaf test of deepCompare: the base leaf bv at newPath goes into the
\* change set.
LeafChanged(target, original, key, newPath, bv) ==
    \/ ~Has(target, key)
    \/ Get(target, key) = Str("")
    \/ (Truthy(original) /\ getNestedValue(original, newPath) # bv)
    \/ Get(target, key) # bv

RECURSIVE deepCompare(_, _, _, _, _)
deepCompare(base, target, original, result, currentPath) ==
    LET RECURSIVE BaseLoop(_, _)
        BaseLoop(i, res) ==
            IF res = Thrown \/ i > Len(base.kv) THEN res
            ELSE LET key == base.kv[i].k
                     bv == base.kv[i].v
                     newPath == JoinPath(currentPath, key)
                 IN IF IsObj(bv)
                    THEN IF ~Has(target, key) \/ ~TypeofObject(Get(target, key))
                         THEN BaseLoop(i + 1, Put(res, newPath, bv))
                         ELSE IF ~IsObj(Get(target, key)) THEN Thrown
                         ELSE LET res1 == IF ~Has(res, newPath)
                                          THEN Put(res, newPath, EmptyObj)
                                          ELSE res
                                  origSub == IF Truthy(Get(original, key))
                                             THEN Get(original, key)
                                             ELSE EmptyObj
                                  sub == deepCompare(bv, Get(target, key), origSub,
                                                     Get(res1, newPath), newPath)
                              IN IF sub = Thrown THEN Thrown
                                 ELSE IF Len(sub.kv) = 0
                                 THEN BaseLoop(i + 1, Del(res1, newPath))
                                 ELSE BaseLoop(i + 1, Put(res1, newPath, sub))
                    ELSE IF LeafChanged(target, original, key, newPath, bv)
                         THEN BaseLoop(i + 1, Put(res, newPath, bv))
                         ELSE BaseLoop(i + 1, res)
        RECURSIVE TargetLoop(_, _)
        TargetLoop(i, res) ==
            IF res = Thrown \/ i > Len(target.kv) THEN res
            ELSE LET key == target.kv[i].k
                     newPath == JoinPath(currentPath, key)
                 IN IF ~Has(base, key)
                    THEN TargetLoop(i + 1, Put(res, newPath, Null))
                    ELSE TargetLoop(i + 1, res)
    IN TargetLoop(1, BaseLoop(1, result))

\* prepareTranslationContent(baseContent, targetContent, originalBaseContent)
prepareTranslationContent(baseContent, targetContent, originalBaseContent) ==
    deepCompare(baseContent, targetContent, originalBaseContent, EmptyObj, <<>>)

-----------------------------------------------------------------------------
(* Change set: getDiff / diffRecursive (TranslationManager.translateLanguage) *)

NoDiff == [t |-> "diff", added |-> EmptyObj, modified |-> EmptyObj, deleted |-> <<>>]

\* The modified test of diffRecursive for a base leaf present in target.
LeafModified(target, originalBase, key, newPath, bv) ==
    bv # Get(target, key) /\ bv # getNestedValue(originalBase, newPath)

RECURSIVE diffRecursive(_, _, _, _, _)
\* `key in target` throws a TypeError when target is a string or null.  (A
\* string target under an empty base object, whose characters the second
\* loop would walk, is not among the trees drawn here.)
diffRecursive(base, target, originalBase, d, path) ==
    LET RECURSIVE BaseLoop(_, _)
        BaseLoop(i, acc) ==
            IF acc.t = "throw" \/ i > Len(base.kv) THEN acc
            ELSE IF ~IsObj(target) THEN Thrown
            ELSE LET key == base.kv[i].k
                     bv == base.kv[i].v
                     newPath == JoinPath(path, key)
                 IN IF ~Has(target, key)
                    THEN BaseLoop(i + 1,
                             [acc EXCEPT !.added = Put(acc.added, newPath, bv)])
                    ELSE IF IsObj(bv)
                    THEN BaseLoop(i + 1,
                             diffRecursive(bv, Get(target, key),
                                 IF Truthy(originalBase) THEN Get(originalBase, key)
                                 ELSE Undef,
                                 acc, newPath))
                    ELSE IF LeafModified(target, originalBase, key, newPath, bv)
                    THEN BaseLoop(i + 1,
                             [acc EXCEPT !.modified = Put(acc.modified, newPath, bv)])
                    ELSE BaseLoop(i + 1, acc)
        RECURSIVE TargetLoop(_, _)
        TargetLoop(i, acc) ==
            IF acc.t = "throw" \/ ~IsObj(target) \/ i > Len(target.kv) THEN acc
            ELSE LET key == target.kv[i].k
                     newPath == JoinPath(path, key)
                 IN IF ~Has(base, key)
                    THEN TargetLoop(i + 1,
                             [acc EXCEPT !.deleted = Append(acc.deleted, newPath)])
                    ELSE TargetLoop(i + 1, acc)
    IN TargetLoop(1, BaseLoop(1, d))

\* getDiff(baseContent, targetContent, originalBaseContent)
getDiff(baseContent, targetContent, originalBaseContent) ==
    diffRecursive(baseContent, targetContent, originalBaseContent, NoDiff, <<>>)

-----------------------------------------------------------------------------
(* Response normalisation *)

RECURSIVE normalizeNestedKeys(_, _)
normalizeNestedKeys(obj, rootKey) ==
    IF ~IsObj(obj) THEN obj
    ELSE LET RECURSIVE Loop(_, _)
             Loop(i, normalized) ==
                 IF i > Len(obj.kv) THEN normalized
                 ELSE LET key == obj.kv[i].k
                          \* the anchored pattern ^rootKey\. matches exactly
                          \* the prefix that startsWith has just found
                          cleanKey == IF StartsWith(key, rootKey \o Dot)
                                      THEN SubSeq(key, Len(rootKey) + 2, Len(key))
                                      ELSE key
                      IN Loop(i + 1, Put(normalized, cleanKey,
                                 normalizeNestedKeys(obj.kv[i].v, rootKey)))
         IN Loop(1, EmptyObj)

\* Does the pattern originalKey\.originalKey\. match s at position i?  A '.'
\* inside originalKey is unescaped in the source and matches any character.
PrefixPairMatchesAt(s, i, originalKey) ==
    LET n == Len(originalKey)
    IN /\ i + 2 * n + 1 <= Len(s)
       /\ \A j \in 1..n :
             /\ (originalKey[j] = "." \/ s[i + j - 1] = originalKey[j])
             /\ (originalKey[j] = "." \/ s[i + n + j] = originalKey[j])
       /\ s[i + n] = "."
       /\ s[i + 2 * n + 1] = "."

RECURSIVE CollapseFrom(_, _, _, _)
CollapseFrom(s, i, originalKey, out) ==
    IF i > Len(s) THEN out
    ELSE IF PrefixPairMatchesAt(s, i, originalKey)
    THEN CollapseFrom(s, i + 2 * Len(originalKey) + 2, originalKey,
                      out \o originalKey \o Dot)
    ELSE CollapseFrom(s, i + 1, originalKey, Append(out, s[i]))

\* key.replace(new RegExp(`${originalKey}\\.${originalKey}\\.`, "g"),
\*             `${originalKey}.`)
CollapseRepeatedPrefix(key, originalKey) == CollapseFrom(key, 1, originalKey, <<>>)

RECURSIVE FilterEntries(_, _, _, _)
FilterEntries(flattened, originalKey, i, out) ==
    IF i > Len(flattened.kv) THEN out
    ELSE IF StartsWith(flattened.kv[i].k, originalKey \o Dot)
    THEN FilterEntries(flattened, originalKey, i + 1,
             Append(out, E(CollapseRepeatedPrefix(flattened.kv[i].k, originalKey),
                           flattened.kv[i].v)))
    ELSE FilterEntries(flattened, originalKey, i + 1, out)

RECURSIVE FromEntries(_, _, _)
FromEntries(entries, i, o) ==
    IF i > Len(entries) THEN o
    ELSE FromEntries(entries, i + 1, Put(o, entries[i].k, entries[i].v))

\* The fallback branch for a requested key the response does not carry as an
\* own property: Undef when no flattened response key lies under it.
FallbackSubtree(llmResponse, originalKey) ==
    LET flattened == flattenNestedContent(llmResponse, <<>>)
        filteredEntries == FilterEntries(flattened, originalKey, 1, <<>>)
        rebuiltSubtree == unflattenContent(FromEntries(filteredEntries, 1, EmptyObj))
    IN IF Len(filteredEntries) = 0 THEN Undef
       ELSE IF rebuiltSubtree = Thrown THEN Thrown
       ELSE normalizeNestedKeys(
                IF Truthy(Get(rebuiltSubtree, originalKey))
                THEN Get(rebuiltSubtree, originalKey)
                ELSE rebuiltSubtree,
                originalKey)

RECURSIVE OldConvertFrom(_, _, _, _)
OldConvertFrom(flattenedResponse, originalChunk, i, result) ==
    IF i > Len(originalChunk.kv) THEN result
    ELSE LET originalKey == originalChunk.kv[i].k
         IN OldConvertFrom(flattenedResponse, originalChunk, i + 1,
                Put(result, originalKey,
                    IF Has(flattenedResponse, originalKey)
                    THEN Get(flattenedResponse, originalKey)
                    ELSE originalChunk.kv[i].v))

\* convertLLMResponseToOriginalStructure(llmResponse, originalChunk), the
\* earlier version, which falls back to the requested value
convertLLMResponseToOriginalStructure(llmResponse, originalChunk) ==
    OldConvertFrom(flattenNestedContent(llmResponse, <<>>), originalChunk, 1,
                   EmptyObj)

RECURSIVE ConvertFrom(_, _, _, _)
ConvertFrom(llmResponse, originalChunk, i, result) ==
    IF result = Thrown \/ i > Len(originalChunk.kv) THEN result
    ELSE LET originalKey == originalChunk.kv[i].k
         IN IF Has(llmResponse, originalKey)
            THEN ConvertFrom(llmResponse, originalChunk, i + 1,
                     Put(result, originalKey,
                         normalizeNestedKeys(Get(llmResponse, originalKey),
                                             originalKey)))
            ELSE LET sub == FallbackSubtree(llmResponse, originalKey)
                 IN IF sub = Thrown THEN Thrown
                    ELSE IF sub = Undef
                    THEN ConvertFrom(llmResponse, originalChunk, i + 1, result)
                    ELSE ConvertFrom(llmResponse, originalChunk, i + 1,
                             Put(result, originalKey, sub))

\* convertLLMResponseToOriginalStructureNew(llmResponse, originalChunk)
convertLLMResponseToOriginalStructureNew(llmResponse, originalChunk) ==
    ConvertFrom(llmResponse, originalChunk, 1, EmptyObj)

-----------------------------------------------------------------------------
(* Chunker and batcher *)

RECURSIVE JsonLen(_, _)
\* JSON.stringify(v, null, 2).length for a value printed at nesting level
\* `level` (strings of the model need no escapes).
JsonLen(v, level) ==
    IF v.t = "str" THEN Len(v.s) + 2
    ELSE IF v.t = "null" THEN 4
    ELSE IF Len(v.kv) = 0 THEN 2
    ELSE LET RECURSIVE Sum(_)
             Sum(i) ==
                 IF i > Len(v.kv) THEN 0
                 ELSE 1 + 2 * (level + 1) + Len(v.kv[i].k) + 2 + 2
                        + JsonLen(v.kv[i].v, level + 1) + Sum(i + 1)
         IN 1 + Sum(1) + (Len(v.kv) - 1) + 1 + 2 * level + 1

RECURSIVE ChunkFromLate(_, _, _, _, _, _)
\* A chunker that closes the current chunk only after it has added the entry
\* that takes it over the budget.
ChunkFromLate(obj, maxChunkSize, i, currentChunk, currentChunkSize, chunks) ==
    IF i > Len(obj.kv)
    THEN IF Len(currentChunk.kv) > 0 THEN Append(chunks, currentChunk) ELSE chunks
    ELSE LET key == obj.kv[i].k
             keyValueSize == JsonLen(Obj(<<E(key, obj.kv[i].v)>>), 0)
         IN IF currentChunkSize + keyValueSize > maxChunkSize
               /\ Len(currentChunk.kv) > 0
            THEN ChunkFromLate(obj, maxChunkSize, i + 1, EmptyObj, 0,
                     Append(chunks, Put(currentChunk, key, obj.kv[i].v)))
            ELSE ChunkFromLate(obj, maxChunkSize, i + 1,
                               Put(currentChunk, key, obj.kv[i].v),
                               currentChunkSize + keyValueSize, chunks)

RECURSIVE ChunkFrom(_, _, _, _, _, _)
ChunkFrom(obj, maxChunkSize, i, currentChunk, currentChunkSize, chunks) ==
    IF i > Len(obj.kv)
    THEN IF Len(currentChunk.kv) > 0 THEN Append(chunks, currentChunk) ELSE chunks
    ELSE LET key == obj.kv[i].k
             keyValueSize == JsonLen(Obj(<<E(key, obj.kv[i].v)>>), 0)
         IN IF currentChunkSize + keyValueSize > maxChunkSize
               /\ Len(currentChunk.kv) > 0
            THEN ChunkFrom(obj, maxChunkSize, i + 1,
                           Obj(<<E(key, obj.kv[i].v)>>), keyValueSize,
                           Append(chunks, currentChunk))
            ELSE ChunkFrom(obj, maxChunkSize, i + 1,
                           Put(currentChunk, key, obj.kv[i].v),
                           currentChunkSize + keyValueSize, chunks)

\* A chunker without the push of the last chunk after the loop.
splitIntoChunksWithoutLast(obj, chunkSize) ==
    LET all == ChunkFrom(obj, chunkSize, 1, EmptyObj, 0, <<>>)
    IN SubSeq(all, 1, Len(all) - 1)

\* splitIntoChunks(obj, chunkSize): the sequence of chunks
splitIntoChunks(obj, chunkSize) == ChunkFrom(obj, chunkSize, 1, EmptyObj, 0, <<>>)

RECURSIVE BatchFrom(_, _, _, _, _)
BatchFrom(obj, batchSize, i, currentBatch, batches) ==
    IF i > Len(obj.kv)
    THEN IF Len(currentBatch.kv) > 0 THEN Append(batches, currentBatch) ELSE batches
    ELSE LET next == Put(currentBatch, obj.kv[i].k, obj.kv[i].v)
         IN IF Len(next.kv) >= batchSize
            THEN BatchFrom(obj, batchSize, i + 1, EmptyObj, Append(batches, next))
            ELSE BatchFrom(obj, batchSize, i + 1, next, batches)

\* splitIntoBatches(obj, batchSize), all batches drawn with one batch size
splitIntoBatches(obj, batchSize) == BatchFrom(obj, batchSize, 1, EmptyObj, <<>>)

-----------------------------------------------------------------------------
(* The world: files, configuration, the external Translator *)

\* Bounds of the model
MaxRuns == 2
ChunkSize == 55

kA == <<"a">>
kB == <<"b">>
kQ == <<"q">>
kX == <<"x">>
kY == <<"y">>
kZ == <<"z">>
kAB == <<"a", ".", "b">>
kXY == <<"x", ".", "y">>
kW == <<"w">>

Absent == [t |-> "absent", s |-> "", kv |-> <<>>]
\* A file cut short by a write that failed: its text does not parse.
Truncated == [t |-> "truncated", s |-> "", kv |-> <<>>]
NoTemp == 0
NoRun == 0
NoFile == "none"

\* en.json is the base-language file (i18nNexus.baseLanguage = en); fr.json
\* and de.json are target files; xx.json names a path with no file.
BaseLanguageFile == "en"
FileNames == {"en", "fr", "de", "xx"}

BaseTree ==
    Obj(<<E(kA, Str("Hello")), E(kB, Str("World")),
          E(kX, Obj(<<E(kY, Str("Yes"))>>))>>)

OldBaseTree ==
    Obj(<<E(kA, Str("Hi")), E(kB, Str("World")),
          E(kX, Obj(<<E(kY, Str("Yes"))>>))>>)

FrTree ==
    Obj(<<E(kA, Str("Bonjour")), E(kX, Obj(<<E(kY, Str("Oui"))>>)),
          E(kZ, Str("Vieux"))>>)

InitialFiles ==
    [f \in FileNames |->
        IF f = "en" THEN BaseTree
        ELSE IF f = "fr" THEN FrTree
        ELSE IF f = "de" THEN EmptyObj
        ELSE Absent]

\* What a cooperative Translator makes of one source string.
TranslateText(s) ==
    IF s = "Hello" THEN "Salut"
    ELSE IF s = "World" THEN "Monde"
    ELSE IF s = "Yes" THEN "Si"
    ELSE "T"

RECURSIVE TranslateTree(_)
\* The request with every string translated and the request's shape kept.
TranslateTree(v) ==
    IF v.t = "str" THEN Str(TranslateText(v.s))
    ELSE IF v.t = "obj"
    THEN Obj([i \in 1..Len(v.kv) |-> E(v.kv[i].k, TranslateTree(v.kv[i].v))])
    ELSE v

\* The Translator is external and may answer with any JSON object.  The
\* answers drawn for a request: the request translated in its own shape, the
\* same re-nested along the dots of its paths, the same without its first key,
\* an object of a key that was not asked for, and the empty object.
AllResponses(chunk) ==
    LET shaped == TranslateTree(chunk)
        flat == flattenNestedContent(shaped, <<>>)
        renested == unflattenContent(flat)
    IN { shaped,
         IF renested = Thrown THEN shaped ELSE renested,
         Obj(SubSeq(shaped.kv, 2, Len(shaped.kv))),
         Obj(<<E(kQ, Str("T"))>>),
         EmptyObj }

\* The answers drawn inside a run of chunks.
Responses(chunk) ==
    { TranslateTree(chunk), Obj(<<E(kQ, Str("T"))>>), EmptyObj }

-----------------------------------------------------------------------------
(* State *)

VARIABLES
    files,                \* file name -> its JSON tree, or Absent
    snapshotFile,         \* en.json.original: its tree, or Absent
    tempFiles,            \* temp accumulator files, by the run that made them
    isTranslationActive,  \* StreamingTranslationManager fields
    translationCancelled,
    tempFilePath,
    originalFilePath,
    progressBarResolve,   \* the run whose notification promise is held, or NoRun
    openProgress,         \* runs whose progress notification is still open
    runs,                 \* the locals of each translateLargeFileStreaming call
    tm,                   \* the locals of the TranslationManager call
    pure,                 \* inputs and result of the pure-function harness
    llm                   \* LLMService: its fields and its translate call

vars == <<files, snapshotFile, tempFiles, isTranslationActive,
          translationCancelled, tempFilePath, originalFilePath,
          progressBarResolve, openProgress, runs, tm, pure, llm>>

streamVars == <<tempFiles, isTranslationActive, translationCancelled,
                tempFilePath, originalFilePath, progressBarResolve,
                openProgress, runs>>

RunIds == 1..MaxRuns

\* A call that has not started.  The fields after rejectedChunks record the
\* call's history: the chunks handed to the Translator; whether cancellation
\* was requested while the call was running, and how many chunks had been
\* handed out by then; how many chunks put at least one path into the temp
\* file; the target tree read at its start; while the call
\* waits out the delay after a chunk, that chunk's normalised response,
\* whether it was applied and the updated side of the diff view shown for
\* it; the branch taken after the loop; and the paths that the call's merges
\* have set or deleted in the temp file.
NoRunYet ==
    [pc |-> "none", file |-> NoFile, chunks |-> <<>>, i |-> 0, results |-> 0,
     acceptedChunks |-> 0, rejectedChunks |-> 0, attempts |-> <<>>,
     cancelRequested |-> FALSE, attemptsAtCancel |-> 0, mergedChunks |-> 0,
     startTarget |-> Absent, lastNormalized |-> Absent, lastApplied |-> FALSE,
     endedWith |-> "none", lastPreview |-> Absent, written |-> {}]

InFlight(r) == runs[r].pc \in {"translating", "delay"}

\* The next call is the lowest unused slot.
IsNextRun(r) ==
    /\ runs[r].pc = "none"
    /\ \A q \in RunIds : q < r => runs[q].pc # "none"

\* No TranslationManager call has been made.  startFile and translated
\* record the call's history: the target file as it was when the call began,
\* and the translated content the Translator returned to it.
IdleTm ==
    [pc |-> "idle", op |-> "none", file |-> NoFile, startFile |-> Absent,
     baseContent |-> Absent, targetContent |-> Absent, batches |-> <<>>,
     i |-> 0, translated |-> EmptyObj, newContent |-> Absent,
     deleted |-> <<>>, calls |-> 0]
\* The pure-function harness is not in use.
IdlePure == [pc |-> "idle"]
\* LLMService after its constructor (lines 19-28), with the documented
\* translationBatchSize and parallelBatchCount replaced by small values; no
\* translate call has been made.  formed and inFlightAtReturn record history:
\* each batch taken from the generator with this.batchSize as it was then,
\* and the provider calls outstanding when translate returned its result.
LlmAfterConstructor(batchSize, parallelBatchCount) ==
    [pc |-> "idle", batchSize |-> batchSize,
     parallelBatchCount |-> parallelBatchCount, call |-> 0, batches |-> <<>>,
     batchIndex |-> 0, running |-> <<>>, awaited |-> <<>>, inFlight |-> {},
     resolved |-> {}, rejected |-> {}, totalTranslatedContent |-> EmptyObj,
     formed |-> <<>>, outcome |-> "none", inFlightAtReturn |-> {}]
IdleLlm == LlmAfterConstructor(2, 1)

\* The workspace with a snapshot of an earlier base file.
InitFiles ==
    /\ files = InitialFiles
    /\ snapshotFile = OldBaseTree

InitStream ==
    /\ tempFiles = [r \in RunIds |-> Absent]
    /\ isTranslationActive = FALSE
    /\ translationCancelled = FALSE
    /\ tempFilePath = NoTemp
    /\ originalFilePath = NoFile
    /\ progressBarResolve = NoRun
    /\ openProgress = {}
    /\ runs = [r \in RunIds |-> NoRunYet]

-----------------------------------------------------------------------------
(* StreamingTranslationManager *)

\* isValidTranslationFile(filePath): a .json file of the workspace that
\* exists and parses.
isValidTranslationFile(f) == files[f] \notin {Absent, Truncated}

\* getOriginalBaseContent(baseFilePath)
getOriginalBaseContent == IF snapshotFile # Absent THEN snapshotFile
                          ELSE files[BaseLanguageFile]

\* The change set computed at lines 119-124 for target file f.
ToTranslate(f) ==
    prepareTranslationContent(files[BaseLanguageFile], files[f],
                              getOriginalBaseContent)

\* The call stops before the chunk loop: invalid file, base-language file,
\* an error while diffing, or nothing to translate.
StopsEarly(f) ==
    \/ ~isValidTranslationFile(f)
    \/ f = BaseLanguageFile
    \/ LET toTranslate == ToTranslate(f)
       IN toTranslate = Thrown \/ Len(toTranslate.kv) = 0

\* cleanup(): the temp file is unlinked and both paths are forgotten.
Cleanup ==
    /\ tempFiles' = IF tempFilePath # NoTemp
                    THEN [tempFiles EXCEPT ![tempFilePath] = Absent]
                    ELSE tempFiles
    /\ tempFilePath' = NoTemp
    /\ originalFilePath' = NoFile

\* Resolving the held notification promise closes that notification.
ResolveProgress ==
    /\ progressBarResolve' = NoRun
    /\ openProgress' = openProgress \ {progressBarResolve}

\* Lines 201-245: the branches after the loop, and the finally block.
PostLoop(r, rr) ==
    /\ isTranslationActive' = FALSE
    /\ UNCHANGED translationCancelled
    /\ IF ~translationCancelled /\ rr.results > 0 /\ rr.acceptedChunks > 0
       THEN /\ runs' = [runs EXCEPT ![r] =
                           [rr EXCEPT !.pc = "ended", !.endedWith = "summary"]]
            /\ ResolveProgress
            /\ UNCHANGED <<tempFiles, tempFilePath, originalFilePath>>
       ELSE /\ runs' = [runs EXCEPT ![r] =
                           [rr EXCEPT !.pc = "ended", !.endedWith = "cleanup"]]
            /\ Cleanup
            /\ UNCHANGED <<progressBarResolve, openProgress>>

\* Lines 151-168: the head of the loop, up to the await of the next
\* Translator call.
LoopHead(r, rr) ==
    IF ~translationCancelled /\ rr.i < Len(rr.chunks)
    THEN /\ runs' = [runs EXCEPT ![r] =
                        [rr EXCEPT !.pc = "translating", !.i = rr.i + 1,
                                   !.attempts = Append(rr.attempts, rr.i + 1)]]
         /\ UNCHANGED <<tempFiles, isTranslationActive, translationCancelled,
                        tempFilePath, originalFilePath, progressBarResolve,
                        openProgress>>
    ELSE PostLoop(r, rr)

\* Lines 59-62: a call while isTranslationActive is set returns at once.
StartRejected(f) ==
    /\ isTranslationActive
    /\ \E r \in RunIds : IsNextRun(r)
    /\ UNCHANGED vars

\* Lines 64-129 and 239-245: a call that stops before the loop.
StartEarlyReturn(f) ==
    /\ ~isTranslationActive
    /\ StopsEarly(f)
    /\ \E r \in RunIds :
          /\ IsNextRun(r)
          /\ runs' = [runs EXCEPT ![r] =
                         [NoRunYet EXCEPT !.pc = "ended", !.file = f,
                                          !.endedWith = "return"]]
    /\ isTranslationActive' = FALSE
    /\ translationCancelled' = FALSE
    /\ originalFilePath' = f
    /\ UNCHANGED <<files, snapshotFile, tempFiles, tempFilePath,
                   progressBarResolve, openProgress, tm, pure, llm>>

\* Lines 64-168: a call that reaches the loop and awaits its first chunk.
StartRun(f) ==
    /\ ~isTranslationActive
    /\ ~StopsEarly(f)
    /\ \E r \in RunIds :
          /\ IsNextRun(r)
          /\ runs' = [runs EXCEPT ![r] =
                         [NoRunYet EXCEPT
                             !.pc = "translating", !.file = f,
                             !.chunks = splitIntoChunks(ToTranslate(f), ChunkSize),
                             !.i = 1, !.attempts = <<1>>,
                             !.startTarget = files[f]]]
          /\ tempFiles' = [tempFiles EXCEPT ![r] = files[f]]
          /\ tempFilePath' = r
          /\ progressBarResolve' = r
          /\ openProgress' = openProgress \cup {r}
    /\ isTranslationActive' = TRUE
    /\ translationCancelled' = FALSE
    /\ originalFilePath' = f
    /\ UNCHANGED <<files, snapshotFile, tm, pure, llm>>

RECURSIVE ApplyChangesFrom(_, _, _)
\* Lines 417-426: the top-level keys of the changes applied to a copy of the
\* original file's tree.
ApplyChangesFrom(newContent, translatedChanges, i) ==
    IF newContent = Thrown \/ i > Len(translatedChanges.kv) THEN newContent
    ELSE IF translatedChanges.kv[i].v = Null
    THEN ApplyChangesFrom(
             deleteNestedProperty(newContent, translatedChanges.kv[i].k),
             translatedChanges, i + 1)
    ELSE ApplyChangesFrom(
             setNestedProperty(newContent, translatedChanges.kv[i].k,
                               translatedChanges.kv[i].v),
             translatedChanges, i + 1)

\* showDiffViewWithControls(translatedChanges, chunkId): the content of the
\* diff file shown beside the original file, or Absent when no diff view is
\* shown (no original path, or an error, which the function logs).
showDiffViewWithControls(translatedChanges) ==
    IF originalFilePath = NoFile \/ files[originalFilePath] = Truncated
    THEN Absent
    ELSE LET originalContent == IF files[originalFilePath] # Absent
                                THEN files[originalFilePath]
                                ELSE EmptyObj
             newContent == ApplyChangesFrom(originalContent, translatedChanges, 1)
         IN IF newContent = Thrown THEN Absent ELSE newContent

\* The result of applyChunkToFile when it returns false.
NotApplied ==
    [applied |-> FALSE, content |-> Absent, normalized |-> Absent,
     preview |-> Absent]

\* Lines 330-342: the merged content is written to the temp file and the
\* diff view is shown for the converted response.
WriteMergedContent(mergedContent, convertedResponse) ==
    IF mergedContent = Thrown THEN NotApplied
    ELSE [applied |-> TRUE, content |-> mergedContent,
          normalized |-> convertedResponse,
          preview |-> showDiffViewWithControls(convertedResponse)]

\* Lines 325-342: the converted response is merged into currentContent.
MergeConverted(currentContent, convertedResponse) ==
    IF convertedResponse = Thrown THEN NotApplied
    ELSE WriteMergedContent(
             mergeContents(currentContent, EmptyObj, convertedResponse),
             convertedResponse)

\* An applyChunkToFile that merges the chunk into the tree of the original
\* file instead of the temp file's tree.
applyChunkToFileOntoOriginal(translatedContent, originalContent) ==
    IF tempFilePath = NoTemp \/ Len(translatedContent.kv) = 0
    THEN NotApplied
    ELSE MergeConverted(
             IF originalFilePath # NoFile /\ IsObj(files[originalFilePath])
             THEN files[originalFilePath]
             ELSE EmptyObj,
             convertLLMResponseToOriginalStructureNew(translatedContent,
                                                      originalContent))

\* applyChunkToFile(result): whether the chunk was applied, the content
\* written to the file at tempFilePath when it was, and the diff view shown.
applyChunkToFile(translatedContent, originalContent) ==
    IF tempFilePath = NoTemp \/ Len(translatedContent.kv) = 0
    THEN NotApplied
    ELSE MergeConverted(
             IF tempFiles[tempFilePath] # Absent
             THEN tempFiles[tempFilePath]
             ELSE EmptyObj,
             convertLLMResponseToOriginalStructureNew(translatedContent,
                                                      originalContent))

\* Lines 170-193: the result of applyChunkToFile is counted and recorded in
\* call r, which then waits out the delay.
CountChunk(r, rr, res) ==
    /\ tempFiles' = IF res.applied
                    THEN [tempFiles EXCEPT ![tempFilePath] = res.content]
                    ELSE tempFiles
    /\ runs' = [runs EXCEPT ![r] =
                   [rr EXCEPT !.pc = "delay",
                              !.results = rr.results + 1,
                              !.lastNormalized = res.normalized,
                              !.lastApplied = res.applied,
                              !.lastPreview = res.preview,
                              !.written =
                                  IF res.applied
                                  THEN @ \cup
                                       {e.k : e \in Range(
                                           flattenNestedContent(
                                               res.normalized, <<>>).kv)}
                                  ELSE @,
                              !.mergedChunks =
                                  IF res.applied /\ Len(res.normalized.kv) > 0
                                  THEN @ + 1 ELSE @,
                              !.acceptedChunks =
                                  IF res.applied THEN @ + 1 ELSE @,
                              !.rejectedChunks =
                                  IF res.applied THEN @ ELSE @ + 1]]

\* Lines 168-193: the Translator call of the chunk in flight returns
\* translatedContent; the chunk is applied and counted, and the call waits
\* out the delay.  (No chunk drawn here has more keys than one batch holds,
\* so llmService.translate makes one provider call for it.)
ChunkReturns(r, translatedContent) ==
    /\ runs[r].pc = "translating"
    /\ CountChunk(r, runs[r],
                  applyChunkToFile(translatedContent,
                                   runs[r].chunks[runs[r].i]))
    /\ UNCHANGED <<files, snapshotFile, isTranslationActive,
                   translationCancelled, tempFilePath, originalFilePath,
                   progressBarResolve, openProgress, tm, pure, llm>>

\* A loop that a failed Translator call would leave at once.
ChunkFailsAborting(r) ==
    /\ runs[r].pc = "translating"
    /\ PostLoop(r, runs[r])
    /\ UNCHANGED <<files, snapshotFile, tm, pure, llm>>

\* Lines 195-198: the Translator call fails; the loop goes on.
ChunkFails(r) ==
    /\ runs[r].pc = "translating"
    /\ LoopHead(r, runs[r])
    /\ UNCHANGED <<files, snapshotFile, tm, pure, llm>>

\* Line 193: the delay after a chunk ends; the loop goes on.
DelayDone(r) ==
    /\ runs[r].pc = "delay"
    /\ LoopHead(r, [runs[r] EXCEPT !.lastNormalized = Absent,
                                   !.lastApplied = FALSE,
                                   !.lastPreview = Absent])
    /\ UNCHANGED <<files, snapshotFile, tm, pure, llm>>

\* Every call in flight has now seen a cancellation request.
MarkCancelRequested ==
    [r \in RunIds |->
        IF InFlight(r) /\ ~runs[r].cancelRequested
        THEN [runs[r] EXCEPT !.cancelRequested = TRUE,
                             !.attemptsAtCancel = Len(runs[r].attempts)]
        ELSE runs[r]]

\* The i18n-nexus.cancelTranslation command, which calls cancelTranslation()
\* when isActive().
cancelTranslation ==
    /\ isTranslationActive
    /\ translationCancelled' = TRUE
    /\ isTranslationActive' = FALSE
    /\ ResolveProgress
    /\ runs' = MarkCancelRequested
    /\ UNCHANGED <<files, snapshotFile, tempFiles, tempFilePath,
                   originalFilePath, tm, pure, llm>>

\* Lines 631-634: the cancel button of an open progress notification.
onCancellationRequested ==
    /\ openProgress # {}
    /\ ~translationCancelled
    /\ translationCancelled' = TRUE
    /\ runs' = MarkCancelRequested
    /\ UNCHANGED <<files, snapshotFile, tempFiles, isTranslationActive,
                   tempFilePath, originalFilePath, progressBarResolve,
                   openProgress, tm, pure, llm>>

\* acceptAllChanges() with a temp file to apply: applyFinalChanges() copies
\* it over the file at originalFilePath, then cleanup().
acceptAllChanges ==
    /\ tempFilePath # NoTemp
    /\ originalFilePath # NoFile
    /\ tempFiles[tempFilePath] # Absent
    /\ files' = [files EXCEPT ![originalFilePath] = tempFiles[tempFilePath]]
    /\ Cleanup
    /\ UNCHANGED <<snapshotFile, isTranslationActive, translationCancelled,
                   progressBarResolve, openProgress, runs, tm, pure, llm>>

\* acceptAllChanges() with nothing to apply: an error message only.
acceptAllChangesNothing ==
    /\ ~(/\ tempFilePath # NoTemp
         /\ originalFilePath # NoFile
         /\ tempFiles[tempFilePath] # Absent)
    /\ UNCHANGED vars

\* What fs.writeFileSync can leave of the file at f when it fails: the
\* file as it was (the open failed), or the file cut short (a write failed
\* after the open had truncated it).
WriteFailureOutcomes(f) == {files[f], Truncated}

\* acceptAllChanges() with a temp file to apply, when the write of
\* applyFinalChanges (line 589) fails: the error is rethrown (592-595) and
\* ends in the catch of acceptAllChanges (1118-1121), which shows an error
\* message; cleanup() (1117) is not reached.
acceptAllChangesWriteFails ==
    /\ tempFilePath # NoTemp
    /\ originalFilePath # NoFile
    /\ tempFiles[tempFilePath] # Absent
    /\ \E outcome \in WriteFailureOutcomes(originalFilePath) :
          files' = [files EXCEPT ![originalFilePath] = outcome]
    /\ UNCHANGED <<snapshotFile, streamVars, tm, pure, llm>>

\* The chunk whose Translator call is in flight in call r.
CurrentChunk(r) ==
    IF runs[r].pc = "translating" THEN runs[r].chunks[runs[r].i] ELSE EmptyObj

StreamNext ==
    \/ \E f \in FileNames : StartRejected(f)
    \/ \E f \in FileNames : StartEarlyReturn(f)
    \/ \E f \in FileNames : StartRun(f)
    \/ \E r \in RunIds :
          \E resp \in Responses(CurrentChunk(r)) : ChunkReturns(r, resp)
    \/ \E r \in RunIds : ChunkFails(r)
    \/ \E r \in RunIds : DelayDone(r)
    \/ cancelTranslation
    \/ onCancellationRequested
    \/ acceptAllChanges
    \/ acceptAllChangesNothing

StreamInit ==
    /\ InitFiles
    /\ InitStream
    /\ tm = IdleTm
    /\ pure = IdlePure
    /\ llm = IdleLlm

\* The streaming manager under every interleaving of its commands with the
\* completions of its awaits.
Spec == StreamInit /\ [][StreamNext]_vars

\* The awaits of a call end: its Translator call returns or fails, and the
\* timer of its delay fires.
AwaitEnds(r) ==
    \/ \E resp \in Responses(CurrentChunk(r)) : ChunkReturns(r, resp)
    \/ ChunkFails(r)
    \/ DelayDone(r)

\* The streaming manager when no await of a call lasts for ever; the
\* commands of the user may or may not be given.
SpecLive ==
    /\ StreamInit
    /\ [][StreamNext]_vars
    /\ \A r \in RunIds : WF_vars(AwaitEnds(r))

\* No call of translateLargeFileStreaming has been made.
NoCallYet == \A r \in RunIds : runs[r].pc = "none"

CommitNext ==
    \/ \E f \in FileNames : NoCallYet /\ StartRun(f)
    \/ \E r \in RunIds :
          \E resp \in Responses(CurrentChunk(r)) : ChunkReturns(r, resp)
    \/ \E r \in RunIds : ChunkFails(r)
    \/ \E r \in RunIds : DelayDone(r)
    \/ cancelTranslation
    \/ onCancellationRequested
    \/ acceptAllChanges
    \/ acceptAllChangesWriteFails

\* One call of the streaming manager, with commits whose write to the
\* target file may fail.
SpecCommit == StreamInit /\ [][CommitNext]_vars

-----------------------------------------------------------------------------
(* TranslationManager: translateFile and translateLanguage *)

BatchSize == 2
MaxCalls == 2
EnableDiffView == TRUE

Digits == <<"0", "1", "2", "3", "4", "5", "6", "7", "8", "9">>

RECURSIVE PathText(_)
\* The text of a path.
PathText(p) == IF p = <<>> THEN "" ELSE p[1] \o PathText(Tail(p))

\* A JavaScript array of paths, seen through for...in: the indices are its
\* keys.
ArrayOf(paths) ==
    Obj([i \in 1..Len(paths) |-> E(<<Digits[i]>>, Str(PathText(paths[i])))])

\* The TranslationManager is between calls, and calls remain to be made.
Resting ==
    /\ tm.pc \in {"idle", "returned", "failed", "written", "declined"}
    /\ tm.calls < MaxCalls

\* Lines 569-570: the target file's tree, or {} when there is no file.
LoadTarget(f) == IF files[f] # Absent THEN files[f] ELSE EmptyObj

\* getOriginalBaseContent(filePath) of TranslationManager: the base file of
\* the previous commit, or the current base file when git gives nothing.
GitPrevious == {files[BaseLanguageFile], OldBaseTree}

\* getBaseChanges(messagesPath, baseLanguage): the added lines of the last
\* commit's diff of the base file; empty outside a git repository.
BaseChanges == {EmptyObj, Obj(<<E(kB, Str("World"))>>)}

TfToTranslate(f, orig) ==
    prepareTranslationContent(files[BaseLanguageFile], LoadTarget(f), orig)

TfStopsEarly(f, orig) ==
    \/ f = BaseLanguageFile
    \/ TfToTranslate(f, orig) = Thrown
    \/ Len(TfToTranslate(f, orig).kv) = 0

\* translateFile(fileUri), lines 537-578, stopping before the Translator.
TranslateFileReturnsEarly(f, orig) ==
    /\ Resting
    /\ TfStopsEarly(f, orig)
    /\ tm' = [IdleTm EXCEPT
                 !.pc = IF f # BaseLanguageFile /\ TfToTranslate(f, orig) = Thrown
                        THEN "failed" ELSE "returned",
                 !.op = "translateFile", !.file = f, !.startFile = files[f], !.calls = tm.calls + 1]
    /\ UNCHANGED <<files, snapshotFile, streamVars, pure, llm>>

\* translateFile(fileUri), lines 537-580, up to the await of the first batch
\* of llmService.translate.
TranslateFileStart(f, orig) ==
    /\ Resting
    /\ ~TfStopsEarly(f, orig)
    /\ tm' = [IdleTm EXCEPT
                 !.pc = "tf_translating", !.op = "translateFile", !.file = f,
                 !.startFile = files[f], !.calls = tm.calls + 1,
                 !.baseContent = files[BaseLanguageFile],
                 !.targetContent = LoadTarget(f),
                 !.batches = splitIntoBatches(TfToTranslate(f, orig), BatchSize),
                 !.i = 1]
    /\ UNCHANGED <<files, snapshotFile, streamVars, pure, llm>>

\* The batch whose Translator call is in flight.
CurrentBatch ==
    IF tm.pc \in {"tf_translating", "tl_batch"} THEN tm.batches[tm.i]
    ELSE EmptyObj

\* translateInBatches with parallelBatchCount 1: a batch returns and is
\* assigned into the total; after the last one translateFile merges
\* (line 582) and shows the preview.
TranslateFileBatchReturns(resp) ==
    /\ tm.pc = "tf_translating"
    /\ LET total == ObjectAssign(tm.translated, resp)
           newContent == mergeContents(tm.baseContent, tm.targetContent, total)
       IN tm' = IF tm.i < Len(tm.batches)
                THEN [tm EXCEPT !.i = tm.i + 1, !.translated = total]
                ELSE IF newContent = Thrown
                THEN [tm EXCEPT !.pc = "failed", !.translated = total]
                ELSE [tm EXCEPT !.pc = "tf_preview", !.translated = total,
                                !.newContent = newContent]
    /\ UNCHANGED <<files, snapshotFile, streamVars, pure, llm>>

\* The Translator call fails: translateFile's catch, lines 595-598.
TranslateFileBatchFails ==
    /\ tm.pc = "tf_translating"
    /\ tm' = [tm EXCEPT !.pc = "failed"]
    /\ UNCHANGED <<files, snapshotFile, streamVars, pure, llm>>

\* previewChanges returns true ('Apply Changes'): line 590 writes the file.
TranslateFileApply ==
    /\ tm.pc = "tf_preview"
    /\ EnableDiffView
    /\ files' = [files EXCEPT ![tm.file] = tm.newContent]
    /\ tm' = [tm EXCEPT !.pc = "written"]
    /\ UNCHANGED <<snapshotFile, streamVars, pure, llm>>

\* previewChanges returns false: lines 585-588.
TranslateFileDecline ==
    /\ tm.pc = "tf_preview"
    /\ EnableDiffView
    /\ tm' = [tm EXCEPT !.pc = "declined"]
    /\ UNCHANGED <<files, snapshotFile, streamVars, pure, llm>>

\* Lines 263-270: the snapshot read by translateLanguage.
TlOriginalBase == IF snapshotFile # Absent THEN snapshotFile
                  ELSE files[BaseLanguageFile]

TlDiff(lang) == getDiff(files[BaseLanguageFile], LoadTarget(lang), TlOriginalBase)

\* Line 276: { ...diff.added, ...diff.modified, ...baseChanges }
TlToTranslate(lang, baseChanges) ==
    ObjectAssign(ObjectAssign(ObjectAssign(EmptyObj, TlDiff(lang).added),
                              TlDiff(lang).modified), baseChanges)

TlStopsEarly(lang, baseChanges) ==
    \/ TlDiff(lang).t = "throw"
    \/ Len(TlToTranslate(lang, baseChanges).kv) = 0

\* Lines 263-270: a missing snapshot is written when the call begins.
TlSnapshotWritten ==
    snapshotFile' = IF snapshotFile # Absent THEN snapshotFile
                    ELSE files[BaseLanguageFile]

\* translateLanguage for one target language of translate(), stopping
\* before the Translator: nothing to translate, or an error while diffing.
TranslateLanguageReturnsEarly(lang, baseChanges) ==
    /\ Resting
    /\ lang # BaseLanguageFile
    /\ TlStopsEarly(lang, baseChanges)
    /\ TlSnapshotWritten
    /\ tm' = [IdleTm EXCEPT
                 !.pc = IF TlDiff(lang).t = "throw" THEN "failed" ELSE "returned",
                 !.op = "translateLanguage", !.file = lang,
                 !.startFile = files[lang], !.calls = tm.calls + 1]
    /\ UNCHANGED <<files, streamVars, pure, llm>>

\* translateLanguage, lines 246-288, up to the await of the first batch of
\* translateGenerator.
TranslateLanguageStart(lang, baseChanges) ==
    /\ Resting
    /\ lang # BaseLanguageFile
    /\ ~TlStopsEarly(lang, baseChanges)
    /\ TlSnapshotWritten
    /\ tm' = [IdleTm EXCEPT
                 !.pc = "tl_batch", !.op = "translateLanguage", !.file = lang,
                 !.startFile = files[lang], !.calls = tm.calls + 1,
                 !.baseContent = files[BaseLanguageFile],
                 !.targetContent = LoadTarget(lang),
                 !.batches =
                     splitIntoBatches(TlToTranslate(lang, baseChanges), BatchSize),
                 !.i = 1,
                 !.newContent = LoadTarget(lang),
                 !.deleted = TlDiff(lang).deleted]
    /\ UNCHANGED <<files, streamVars, pure, llm>>

\* Lines 288-298: a batch returns; the loop body merges and writes the
\* target file, and after the last batch the deleted paths are merged and
\* validation is awaited.
TranslateLanguageBatchReturns(resp) ==
    /\ tm.pc = "tl_batch"
    /\ LET newContent == mergeContents(tm.newContent, resp, EmptyObj)
           afterLoop == mergeContents(newContent, EmptyObj, ArrayOf(tm.deleted))
       IN /\ files' = [files EXCEPT ![tm.file] = newContent]
          /\ tm' = IF tm.i < Len(tm.batches)
                   THEN [tm EXCEPT !.i = tm.i + 1, !.newContent = newContent,
                                   !.translated = ObjectAssign(tm.translated, resp)]
                   ELSE IF afterLoop = Thrown
                   THEN [tm EXCEPT !.pc = "failed", !.newContent = newContent,
                                   !.translated = ObjectAssign(tm.translated, resp)]
                   ELSE [tm EXCEPT !.pc = "tl_validate", !.newContent = afterLoop,
                                   !.translated = ObjectAssign(tm.translated, resp)]
    /\ UNCHANGED <<snapshotFile, streamVars, pure, llm>>

\* A Translator or validation call fails: the error leaves translateLanguage
\* and translate() goes on to the next language (lines 124-129).
TranslateLanguageFails ==
    /\ tm.pc \in {"tl_batch", "tl_validate"}
    /\ tm' = [tm EXCEPT !.pc = "failed"]
    /\ UNCHANGED <<files, snapshotFile, streamVars, pure, llm>>

\* Lines 299-309: validation returns, valid or not; the preview is shown.
TranslateLanguageValidated ==
    /\ tm.pc = "tl_validate"
    /\ tm' = [tm EXCEPT !.pc = "tl_preview"]
    /\ UNCHANGED <<files, snapshotFile, streamVars, pure, llm>>

\* Lines 318-323: the preview is confirmed; the target file and the
\* snapshot are written.
TranslateLanguageApply ==
    /\ tm.pc = "tl_preview"
    /\ EnableDiffView
    /\ files' = [files EXCEPT ![tm.file] = tm.newContent]
    /\ snapshotFile' = tm.baseContent
    /\ tm' = [tm EXCEPT !.pc = "written"]
    /\ UNCHANGED <<streamVars, pure, llm>>

\* Lines 310-316: the preview is declined.
TranslateLanguageDecline ==
    /\ tm.pc = "tl_preview"
    /\ EnableDiffView
    /\ tm' = [tm EXCEPT !.pc = "declined"]
    /\ UNCHANGED <<files, snapshotFile, streamVars, pure, llm>>

TMNext ==
    \/ \E f \in FileNames : \E orig \in GitPrevious :
          TranslateFileReturnsEarly(f, orig)
    \/ \E f \in FileNames : \E orig \in GitPrevious : TranslateFileStart(f, orig)
    \/ \E resp \in AllResponses(CurrentBatch) : TranslateFileBatchReturns(resp)
    \/ TranslateFileBatchFails
    \/ TranslateFileApply
    \/ TranslateFileDecline
    \/ \E lang \in FileNames : \E bc \in BaseChanges :
          TranslateLanguageReturnsEarly(lang, bc)
    \/ \E lang \in FileNames : \E bc \in BaseChanges :
          TranslateLanguageStart(lang, bc)
    \/ \E resp \in AllResponses(CurrentBatch) : TranslateLanguageBatchReturns(resp)
    \/ TranslateLanguageFails
    \/ TranslateLanguageValidated
    \/ TranslateLanguageApply
    \/ TranslateLanguageDecline

\* The workspace with or without a snapshot.
TMInit ==
    /\ files = InitialFiles
    /\ snapshotFile \in {Absent, OldBaseTree}
    /\ InitStream
    /\ tm = IdleTm
    /\ pure = IdlePure
    /\ llm = IdleLlm

\* The TranslationManager's two commands, one call at a time, under every
\* answer of the Translator and of the user.
SpecTM == TMInit /\ [][TMNext]_vars

-----------------------------------------------------------------------------
(* The pure functions, applied to drawn inputs *)

kTitle == <<"a", ".", "b", ".", "t", "i", "t", "l", "e">>

XYHello == Obj(<<E(kX, Obj(<<E(kY, Str("Hello"))>>))>>)
XYBonjour == Obj(<<E(kX, Obj(<<E(kY, Str("Bonjour"))>>))>>)
AHello == Obj(<<E(kA, Str("Hello"))>>)
ABonjour == Obj(<<E(kA, Str("Bonjour"))>>)
AEmptyText == Obj(<<E(kA, Str(""))>>)
XText == Obj(<<E(kX, Str("Oui"))>>)
\* A target with a subtree the base does not have, and one with an extra
\* leaf inside a subtree the base has.
ZWObsolete ==
    Obj(<<E(kA, Str("Bonjour")), E(kZ, Obj(<<E(kW, Str("Obsolete"))>>))>>)
XYWObsolete ==
    Obj(<<E(kX, Obj(<<E(kY, Str("Bonjour")), E(kW, Str("Obsolete"))>>))>>)

PureBases == {BaseTree, XYHello, AHello}
PureTargets ==
    {FrTree, XYBonjour, ABonjour, AEmptyText, XText, EmptyObj, BaseTree,
     ZWObsolete, XYWObsolete}
PureOriginals == PureBases \cup {OldBaseTree, EmptyObj}

\* A chunk of one dotted path, as a flat request; the same path as
\* deepCompare groups it; two top-level leaves; and a grouped subtree.
TitleChunk == Obj(<<E(kTitle, Str("X"))>>)
GroupedTitleChunk ==
    Obj(<<E(kA, Obj(<<E(kAB, Obj(<<E(kTitle, Str("X"))>>))>>))>>)
LeavesChunk == Obj(<<E(kA, Str("Hello")), E(kB, Str("World"))>>)
GroupedChunk == Obj(<<E(kX, Obj(<<E(kXY, Str("Yes"))>>))>>)

PureChunks == {TitleChunk, GroupedTitleChunk, LeavesChunk, GroupedChunk}

\* The response that groups a.b.title under its repeated dotted prefixes.
RegroupedTitleResponse ==
    Obj(<<E(kA, Obj(<<E(kAB, Obj(<<E(kTitle, Str("Y"))>>))>>))>>)

\* An answer that gives one string for the first requested key, and the
\* request translated with one more string beside its first value.
LeafForFirstKey(chunk) == Obj(<<E(chunk.kv[1].k, Str("T"))>>)
WithExtraLeaf(chunk) ==
    LET shaped == TranslateTree(chunk)
        first == shaped.kv[1]
    IN Put(shaped, first.k,
           IF IsObj(first.v) THEN Put(first.v, kW, Str("Extra"))
           ELSE Obj(<<E(kW, Str("Extra"))>>))

\* An answer that names the leaf x.y by a path with the prefix x three
\* times.
TripledPrefixResponse ==
    Obj(<<E(<<"x", ".", "x", ".", "x", ".", "y">>, Str("Si"))>>)

PureResponses(chunk) ==
    AllResponses(chunk)
        \cup {RegroupedTitleResponse, LeafForFirstKey(chunk),
              WithExtraLeaf(chunk), TripledPrefixResponse}

PureInputs ==
    UNION { { [pc |-> "input", base |-> b, target |-> t, original |-> o,
               chunk |-> c, response |-> r, out |-> Absent, merged |-> Absent,
               applied |-> Absent,
               diff |-> NoDiff, map |-> Absent, budget |-> 0, chunks |-> <<>>,
               sequential |-> {}, assigned |-> {}] :
              b \in PureBases, t \in PureTargets, o \in PureOriginals,
              r \in PureResponses(c) } : c \in PureChunks }

\* prepareTranslationContent applied to the drawn trees.
ApplyPrepareTranslationContent ==
    /\ pure.pc = "input"
    /\ pure' = [pure EXCEPT
                   !.pc = "prepared",
                   !.out = prepareTranslationContent(pure.base, pure.target,
                                                     pure.original)]
    /\ UNCHANGED <<files, snapshotFile, streamVars, tm, llm>>

\* getDiff applied to the drawn trees.
ApplyGetDiff ==
    /\ pure.pc = "input"
    /\ pure' = [pure EXCEPT
                   !.pc = "diffed",
                   !.diff = getDiff(pure.base, pure.target, pure.original)]
    /\ UNCHANGED <<files, snapshotFile, streamVars, tm, llm>>

\* convertLLMResponseToOriginalStructureNew applied to the drawn response
\* and chunk, and its result merged as applyChunkToFile merges it (line
\* 325): into an empty accumulator, and into the drawn target tree as the
\* accumulator.
ApplyConvert ==
    /\ pure.pc = "input"
    /\ LET converted ==
               convertLLMResponseToOriginalStructureNew(pure.response, pure.chunk)
       IN pure' = [pure EXCEPT
                      !.pc = "converted",
                      !.out = converted,
                      !.merged = IF converted = Thrown THEN Thrown
                                 ELSE mergeContents(EmptyObj, EmptyObj, converted),
                      !.applied = IF converted = Thrown THEN Thrown
                                  ELSE mergeContents(pure.target, EmptyObj,
                                                     converted)]
    /\ UNCHANGED <<files, snapshotFile, streamVars, tm, llm>>

\* Trees for the round trip through the flat map: one with subtrees at
\* three depths, and one with an empty subtree.
DeepTree ==
    Obj(<<E(kA, Str("Hello")),
          E(kX, Obj(<<E(kY, Obj(<<E(kZ, Str("Deep")), E(kW, Str("Deeper"))>>)),
                      E(kB, Str("Mid"))>>)),
          E(kQ, Obj(<<E(kW, Str("Two"))>>))>>)
EmptyGroupTree == Obj(<<E(kA, Str("Hello")), E(kX, EmptyObj)>>)
RoundTripTrees ==
    {pure.base, pure.target, pure.chunk, DeepTree, EmptyGroupTree}

\* unflattenContent applied to flattenNestedContent of a drawn tree.
ApplyRoundTrip ==
    /\ pure.pc = "input"
    /\ \E tree \in RoundTripTrees :
          pure' = [pure EXCEPT
                      !.pc = "roundTripped", !.map = tree,
                      !.out = unflattenContent(
                                  flattenNestedContent(tree, <<>>))]
    /\ UNCHANGED <<files, snapshotFile, streamVars, tm, llm>>

\* The largest character budget drawn for the chunker, and the budgets.
MaxBudget == 80
Budgets == {b \in 0..MaxBudget : b % 20 = 0}

\* The maps handed to the chunker: the drawn trees as they are, the base
\* tree flattened, and the change set of the drawn trees.
PureMaps ==
    LET toTranslate == prepareTranslationContent(pure.base, pure.target,
                                                 pure.original)
    IN {pure.base, pure.target, flattenNestedContent(pure.base, <<>>)}
           \cup (IF toTranslate = Thrown THEN {} ELSE {toTranslate})

\* splitIntoChunks applied to a drawn map and budget.
ApplySplitIntoChunks ==
    /\ pure.pc = "input"
    /\ \E m \in PureMaps : \E b \in Budgets :
          pure' = [pure EXCEPT !.pc = "chunked", !.map = m, !.budget = b,
                               !.chunks = splitIntoChunks(m, b)]
    /\ UNCHANGED <<files, snapshotFile, streamVars, tm, llm>>

RECURSIVE MergeInOrder(_, _, _, _)
\* The chunk loop's merges (applyChunkToFile, line 325) of the normalised
\* results into the accumulator, the results taken in the given order.
MergeInOrder(acc, results, order, i) ==
    IF acc = Thrown \/ i > Len(results) THEN acc
    ELSE MergeInOrder(mergeContents(acc, EmptyObj, results[order[i]]),
                      results, order, i + 1)

RECURSIVE AssignInOrder(_, _, _, _)
\* translateInBatches: Object.assign of the batch results into the total,
\* in the order in which the parallel provider calls complete.
AssignInOrder(total, results, order, i) ==
    IF i > Len(results) THEN total
    ELSE AssignInOrder(ObjectAssign(total, results[order[i]]), results, order,
                       i + 1)

\* The change set of the drawn trees is cut into chunks of one key each and
\* every chunk is translated; the results are merged in every order, by the
\* chunk loop onto the target tree and by translateInBatches followed by
\* translateFile's merge (line 582).
ApplyMergeOrders ==
    /\ pure.pc = "input"
    /\ LET toTranslate == prepareTranslationContent(pure.base, pure.target,
                                                    pure.original)
           chunks == splitIntoChunks(toTranslate, 0)
           translated == [i \in 1..Len(chunks) |-> TranslateTree(chunks[i])]
           results ==
               [i \in 1..Len(chunks) |->
                   convertLLMResponseToOriginalStructureNew(translated[i],
                                                            chunks[i])]
           orders == Permutations(1..Len(chunks))
       IN /\ toTranslate # Thrown
          /\ \A i \in 1..Len(chunks) : results[i] # Thrown
          /\ pure' = [pure EXCEPT
                         !.pc = "ordered",
                         !.chunks = results,
                         !.sequential =
                             {MergeInOrder(pure.target, results, o, 1) :
                                  o \in orders},
                         !.assigned =
                             {mergeContents(pure.base, pure.target,
                                  AssignInOrder(EmptyObj, translated, o, 1)) :
                                  o \in orders}]
    /\ UNCHANGED <<files, snapshotFile, streamVars, tm, llm>>

PureNext ==
    \/ ApplyMergeOrders
    \/ ApplyPrepareTranslationContent
    \/ ApplyGetDiff
    \/ ApplyConvert
    \/ ApplySplitIntoChunks
    \/ ApplyRoundTrip

PureInit ==
    /\ InitFiles
    /\ InitStream
    /\ tm = IdleTm
    /\ pure \in PureInputs
    /\ llm = IdleLlm

\* Each pure function applied once to each drawn input.
SpecPure == PureInit /\ [][PureNext]_vars

-----------------------------------------------------------------------------
(* LLMService.translate: batches and the window of parallel provider calls *)

\* Bounds: translate calls made on one service, and the largest window.
MaxTranslateCalls == 2
MaxParallel == 2
\* The configured translationBatchSize values, and the contents translated:
\* maps of two, three and four top-level keys.
BatchSizes == {1, 2, 4}
LlmContents == {LeavesChunk, BaseTree, ObjectAssign(BaseTree, FrTree)}

\* Lines 63-72 and 103-108: translate(content) enters translateInBatches; the
\* generator is created with the value this.batchSize has now.
LlmTranslate(content) ==
    /\ llm.pc = "idle"
    /\ llm.call < MaxTranslateCalls
    /\ llm' = [llm EXCEPT
                  !.pc = "loop", !.call = llm.call + 1,
                  !.batches = splitIntoBatches(content, llm.batchSize),
                  !.batchIndex = 0, !.running = <<>>, !.awaited = <<>>,
                  !.totalTranslatedContent = EmptyObj, !.outcome = "none",
                  !.inFlightAtReturn = {}]
    /\ UNCHANGED <<files, snapshotFile, streamVars, tm, pure>>

\* Lines 123-130: the next batch is taken from the generator, processBatch
\* starts its provider call (112), and the loop awaits the oldest running
\* call when the window is full.
LlmStartBatch ==
    /\ llm.pc = "loop"
    /\ llm.batchIndex < Len(llm.batches)
    /\ LET id == <<llm.call, llm.batchIndex + 1>>
           running == Append(llm.running, id)
           full == Len(running) >= llm.parallelBatchCount
       IN llm' = [llm EXCEPT
                     !.batchIndex = llm.batchIndex + 1,
                     !.inFlight = llm.inFlight \cup {id},
                     !.formed = Append(llm.formed,
                                    [keys |-> Len(llm.batches[id[2]].kv),
                                     batchSize |-> llm.batchSize]),
                     !.running = IF full THEN Tail(running) ELSE running,
                     !.awaited = IF full THEN Head(running) ELSE <<>>,
                     !.pc = IF full THEN "await" ELSE "loop"]
    /\ UNCHANGED <<files, snapshotFile, streamVars, tm, pure>>

\* Line 132: the generator is exhausted; Promise.all(running) is awaited.
LlmLoopEnds ==
    /\ llm.pc = "loop"
    /\ llm.batchIndex = Len(llm.batches)
    /\ llm' = [llm EXCEPT !.pc = "joining"]
    /\ UNCHANGED <<files, snapshotFile, streamVars, tm, pure>>

\* The loop of translateInBatches runs without interruption between its
\* awaits: a provider call's completion is handled only while translate is
\* suspended in an await that cannot go on yet (128, 132), or is not running.
LlmSuspended ==
    \/ llm.pc = "idle"
    \/ llm.pc = "await" /\ llm.awaited \in llm.inFlight
    \/ /\ llm.pc = "joining"
       /\ Range(llm.running) \cap llm.rejected = {}
       /\ Range(llm.running) \cap llm.inFlight # {}

\* Lines 112-120: a provider call returns; its content is assigned into the
\* total of the translate call that started it, and this.batchSize is halved
\* when its tokens exceed batchTokenLimit.
LlmProviderReturns(id, tokensHigh) ==
    /\ LlmSuspended
    /\ id \in llm.inFlight
    /\ llm' = [llm EXCEPT
                  !.inFlight = llm.inFlight \ {id},
                  !.resolved = llm.resolved \cup {id},
                  !.totalTranslatedContent =
                      IF id[1] = llm.call
                      THEN ObjectAssign(llm.totalTranslatedContent,
                                        TranslateTree(llm.batches[id[2]]))
                      ELSE llm.totalTranslatedContent,
                  !.batchSize =
                      IF ~tokensHigh THEN llm.batchSize
                      ELSE IF llm.batchSize \div 2 >= 1
                      THEN llm.batchSize \div 2 ELSE 1]
    /\ UNCHANGED <<files, snapshotFile, streamVars, tm, pure>>

\* Line 112: a provider call fails; processBatch's promise is rejected.
LlmProviderFails(id) ==
    /\ LlmSuspended
    /\ id \in llm.inFlight
    /\ llm' = [llm EXCEPT !.inFlight = llm.inFlight \ {id},
                          !.rejected = llm.rejected \cup {id}]
    /\ UNCHANGED <<files, snapshotFile, streamVars, tm, pure>>

\* Line 128: the awaited call has returned; the loop goes on.
LlmAwaitResumes ==
    /\ llm.pc = "await"
    /\ llm.awaited \in llm.resolved
    /\ llm' = [llm EXCEPT !.pc = "loop", !.awaited = <<>>]
    /\ UNCHANGED <<files, snapshotFile, streamVars, tm, pure>>

\* Lines 128 and 75-80: the awaited call has failed; translate rethrows to
\* its caller while the other running calls stay outstanding.
LlmAwaitThrows ==
    /\ llm.pc = "await"
    /\ llm.awaited \in llm.rejected
    /\ llm' = [llm EXCEPT !.pc = "idle", !.awaited = <<>>,
                          !.outcome = "thrown"]
    /\ UNCHANGED <<files, snapshotFile, streamVars, tm, pure>>

\* Lines 132-133 and 73-74: every running call has returned; translate
\* returns the total.
LlmJoinReturns ==
    /\ llm.pc = "joining"
    /\ Range(llm.running) \subseteq llm.resolved
    /\ llm' = [llm EXCEPT !.pc = "idle", !.running = <<>>,
                          !.outcome = "returned",
                          !.inFlightAtReturn = llm.inFlight]
    /\ UNCHANGED <<files, snapshotFile, streamVars, tm, pure>>

\* Lines 132 and 75-80: a running call has failed; Promise.all rejects and
\* translate rethrows.
LlmJoinThrows ==
    /\ llm.pc = "joining"
    /\ Range(llm.running) \cap llm.rejected # {}
    /\ llm' = [llm EXCEPT !.pc = "idle", !.outcome = "thrown"]
    /\ UNCHANGED <<files, snapshotFile, streamVars, tm, pure>>

LlmNext ==
    \/ \E content \in LlmContents : LlmTranslate(content)
    \/ LlmStartBatch
    \/ LlmLoopEnds
    \/ \E id \in llm.inFlight : \E tokensHigh \in BOOLEAN :
          LlmProviderReturns(id, tokensHigh)
    \/ \E id \in llm.inFlight : LlmProviderFails(id)
    \/ LlmAwaitResumes
    \/ LlmAwaitThrows
    \/ LlmJoinReturns
    \/ LlmJoinThrows

LlmInit ==
    /\ InitFiles
    /\ InitStream
    /\ tm = IdleTm
    /\ pure = IdlePure
    /\ \E batchSize \in BatchSizes :
          \E parallelBatchCount \in 1..MaxParallel :
             llm = LlmAfterConstructor(batchSize, parallelBatchCount)

\* One LLMService, its translate called by one caller at a time, under every
\* outcome of the provider calls.
SpecBatch == LlmInit /\ [][LlmNext]_vars

-----------------------------------------------------------------------------
(* Properties *)

\* The leaf paths of a tree with their values.
FlatOf(v) == IF IsObj(v) THEN flattenNestedContent(v, <<>>) ELSE EmptyObj

\* Path p, a path above p or a path below p is among the paths of flat.
Touched(flat, p) ==
    \E j \in 1..Len(flat.kv) :
        \/ flat.kv[j].k = p
        \/ StartsWith(flat.kv[j].k, p \o Dot)
        \/ StartsWith(p, flat.kv[j].k \o Dot)

\* C1: the tree that translateFile writes after a confirmed preview is the
\* target tree read at the start with the translated results overlaid: every
\* path of that target which no translated result touches keeps its target
\* value, and every written path which no translated result touches is a path
\* of that target with its value (so no base-language value appears there).
C1_WrittenTreeIsTargetOverlaid ==
    (tm.op = "translateFile" /\ tm.pc = "written") =>
        LET written == FlatOf(files[tm.file])
            target == FlatOf(tm.targetContent)
            translated == FlatOf(tm.translated)
        IN /\ \A i \in 1..Len(target.kv) :
                 ~Touched(translated, target.kv[i].k) =>
                     Get(written, target.kv[i].k) = target.kv[i].v
           /\ \A i \in 1..Len(written.kv) :
                 ~Touched(translated, written.kv[i].k) =>
                     Get(target, written.kv[i].k) = written.kv[i].v

\* C2: while a TranslationManager call has not been approved in its preview,
\* the target file is as it was when the call began; in particular it is so
\* after the preview was declined.
C2_TargetUnchangedWithoutApproval ==
    (tm.file # NoFile /\ tm.pc # "written") => files[tm.file] = tm.startFile

\* C3: at most one call of translateLargeFileStreaming is inside its chunk
\* loop at any time.
C3_AtMostOneRunInFlight ==
    Cardinality({r \in RunIds : InFlight(r)}) <= 1

\* C4: a run that ends after cancellation was requested, with at least one
\* chunk merged into the temp file, ends awaiting the user's decision with
\* the temp file kept, not with the temp file discarded.
C4_CancelAfterMergeKeepsAccumulator ==
    \A r \in RunIds :
        (/\ runs[r].pc = "ended"
         /\ runs[r].cancelRequested
         /\ runs[r].mergedChunks >= 1) => runs[r].endedWith = "summary"

\* C5: once cancellation has been requested during a run, the run hands no
\* further chunk to the Translator.
C5_NoChunkStartedAfterCancel ==
    \A r \in RunIds :
        runs[r].cancelRequested =>
            Len(runs[r].attempts) = runs[r].attemptsAtCancel

\* The chunks of a run are handed to the Translator once each, in order; a
\* run that ended without a cancellation request has handed out all of them.
C6Attempts ==
    \A r \in RunIds :
        /\ \A k \in 1..Len(runs[r].attempts) : runs[r].attempts[k] = k
        /\ Len(runs[r].attempts) <= Len(runs[r].chunks)
        /\ (/\ runs[r].pc = "ended"
            /\ ~runs[r].cancelRequested
            /\ runs[r].endedWith # "return")
           => Len(runs[r].attempts) = Len(runs[r].chunks)

\* The step in which the Translator call of run r fails: the run leaves the
\* call for the next chunk or for the end, with no result added.
FailureStep(r) ==
    /\ runs[r].pc = "translating"
    /\ runs'[r].results = runs[r].results
    /\ \/ runs'[r].pc = "ended"
       \/ runs'[r].i = runs[r].i + 1

\* A failure in a run that was not asked to cancel and has merged chunks
\* leaves every temp file as it was.
C6Frame ==
    \A r \in RunIds :
        (/\ FailureStep(r)
         /\ ~runs[r].cancelRequested
         /\ runs[r].mergedChunks >= 1) => tempFiles' = tempFiles

\* C6: a Translator failure never ends the run: unless cancellation is
\* requested every chunk is handed to the Translator exactly once and in
\* order, and the failure leaves the chunks merged before it in the temp file.
C6_FailureDoesNotAbort == [](C6Attempts) /\ [][C6Frame]_vars

\* A run of at least two chunks has ended without cancellation, after a
\* Translator failure and with a chunk merged and kept.
C6_Witness ==
    \E r \in RunIds :
        /\ runs[r].pc = "ended"
        /\ ~runs[r].cancelRequested
        /\ Len(runs[r].chunks) >= 2
        /\ Len(runs[r].attempts) = Len(runs[r].chunks)
        /\ runs[r].results < Len(runs[r].chunks)
        /\ runs[r].mergedChunks >= 1
        /\ tempFiles[r] # Absent
        /\ tempFiles[r] # runs[r].startTarget

\* C7: a chunk whose normalised response has no path is counted as
\* rejected, not as applied.
C7_EmptyNormalizationIsRejected ==
    \A r \in RunIds :
        (/\ runs[r].pc = "delay"
         /\ IsObj(runs[r].lastNormalized)
         /\ Len(FlatOf(runs[r].lastNormalized).kv) = 0) => ~runs[r].lastApplied

\* C8: for the requested chunk {"a.b.title": "X"} and the response
\* {"a": {"a.b": {"a.b.title": "Y"}}}, what normalisation puts into the
\* accumulator is exactly the one path a.b.title with the value "Y".
C8_RegroupedResponseYieldsRequestedPath ==
    (/\ pure.pc = "converted"
     /\ pure.chunk = TitleChunk
     /\ pure.response = RegroupedTitleResponse)
    => FlatOf(pure.merged) = Obj(<<E(kTitle, Str("Y"))>>)

\* The response carries key neither as an own key nor above any of its
\* leaf paths.
AbsentFromResponse(response, key) ==
    /\ ~Has(response, key)
    /\ \A j \in 1..Len(FlatOf(response).kv) :
          ~StartsWith(FlatOf(response).kv[j].k, key \o Dot)

\* The values at the leaves of a tree.
LeafValues(v) == {FlatOf(v).kv[j].v : j \in 1..Len(FlatOf(v).kv)}

\* C9: the normalised result has no entry for a requested key that is absent
\* from the response, and every value in it is a value of the response, none
\* a text of the request.
C9_AbsentKeysOmitted ==
    (pure.pc = "converted" /\ IsObj(pure.out)) =>
        /\ \A i \in 1..Len(pure.chunk.kv) :
              AbsentFromResponse(pure.response, pure.chunk.kv[i].k)
                  => ~Has(pure.out, pure.chunk.kv[i].k)
        /\ LeafValues(pure.out) \subseteq LeafValues(pure.response)

\* A response that lacks one requested key and carries another has been
\* normalised.
C9_Witness ==
    /\ pure.pc = "converted"
    /\ IsObj(pure.out)
    /\ Len(pure.out.kv) >= 1
    /\ \E i \in 1..Len(pure.chunk.kv) :
          AbsentFromResponse(pure.response, pure.chunk.kv[i].k)

RECURSIVE LeafKeys(_)
\* The keys under which a change set holds its leaves: deepCompare stores a
\* changed leaf under its full path.
LeafKeys(v) ==
    IF ~IsObj(v) THEN {}
    ELSE UNION { IF IsObj(v.kv[i].v) THEN LeafKeys(v.kv[i].v) ELSE {v.kv[i].k} :
                 i \in 1..Len(v.kv) }

\* The target holds at path p a non-empty text other than the base text.
AlreadyTranslated(p) ==
    /\ Has(FlatOf(pure.target), p)
    /\ Get(FlatOf(pure.target), p).t = "str"
    /\ Get(FlatOf(pure.target), p).s # ""
    /\ Get(FlatOf(pure.target), p) # Get(FlatOf(pure.base), p)

\* C10: with the base equal to its snapshot, a path at which the target
\* already holds a translation is not in the change set, and when that is so
\* at every base path and the target has no other paths the change set is
\* empty.
C10_ExistingTranslationExcluded ==
    (pure.pc = "prepared" /\ pure.base = pure.original) =>
        LET basePaths == {FlatOf(pure.base).kv[i].k :
                             i \in 1..Len(FlatOf(pure.base).kv)}
            targetPaths == {FlatOf(pure.target).kv[i].k :
                               i \in 1..Len(FlatOf(pure.target).kv)}
        IN /\ \A p \in basePaths :
                 AlreadyTranslated(p) => p \notin LeafKeys(pure.out)
           /\ ((\A p \in basePaths : AlreadyTranslated(p))
               /\ targetPaths \subseteq basePaths) => pure.out = EmptyObj

\* The leaf paths of a tree.
PathsOf(v) == {FlatOf(v).kv[i].k : i \in 1..Len(FlatOf(v).kv)}

\* C11: the change set of a tree against itself, with itself as the
\* snapshot, is empty.
C11_DiffOfTreeWithItselfIsEmpty ==
    (/\ pure.pc = "prepared"
     /\ pure.target = pure.base
     /\ pure.original = pure.base) => pure.out = EmptyObj

\* C12: the change set maps the full dot-joined path of every base leaf
\* that the target lacks directly to the base text, and none of its values
\* is a nested object; for base {"x": {"y": "Hello"}}, an empty target and
\* no snapshot it is exactly {"x.y": "Hello"}.
C12_ChangeSetIsFlatMap ==
    (pure.pc = "prepared" /\ IsObj(pure.out)) =>
        /\ \A p \in PathsOf(pure.base) \ PathsOf(pure.target) :
              Get(pure.out, p) = Get(FlatOf(pure.base), p)
        /\ \A j \in 1..Len(pure.out.kv) : ~IsObj(pure.out.kv[j].v)
        /\ (/\ pure.base = XYHello
            /\ pure.target = EmptyObj
            /\ pure.original = pure.base)
           => pure.out = Obj(<<E(kXY, Str("Hello"))>>)

RECURSIVE NullKeys(_)
\* The keys under which a change set holds null, at any depth.
NullKeys(v) ==
    IF ~IsObj(v) THEN {}
    ELSE UNION { IF IsObj(v.kv[i].v) THEN NullKeys(v.kv[i].v)
                 ELSE IF v.kv[i].v = Null THEN {v.kv[i].k} ELSE {} :
                 i \in 1..Len(v.kv) }

\* C13: the change set holds null under the full dot-joined path of every
\* target leaf that the base lacks, at any depth, and under no other key.
C13_DeletedLeavesAreTombstoned ==
    (pure.pc = "prepared" /\ IsObj(pure.out)) =>
        LET obsolete == PathsOf(pure.target) \ PathsOf(pure.base)
        IN /\ \A p \in obsolete : Has(pure.out, p) /\ Get(pure.out, p) = Null
           /\ NullKeys(pure.out) \subseteq obsolete

RECURSIVE ConcatEntries(_, _)
\* The entries of chunks i.. one after another.
ConcatEntries(chunks, i) ==
    IF i > Len(chunks) THEN <<>>
    ELSE chunks[i].kv \o ConcatEntries(chunks, i + 1)

RECURSIVE SameTree(_, _)
\* Two JSON values are the same tree: the same keys with the same values,
\* whatever the order in which the keys were inserted.
SameTree(a, b) ==
    IF IsObj(a) /\ IsObj(b)
    THEN /\ {a.kv[i].k : i \in 1..Len(a.kv)} = {b.kv[i].k : i \in 1..Len(b.kv)}
         /\ \A i \in 1..Len(a.kv) : SameTree(a.kv[i].v, Get(b, a.kv[i].k))
    ELSE a = b

\* The results have pairwise disjoint keys.
DisjointKeys(results) ==
    \A i, j \in 1..Len(results) :
        i # j => \A m \in 1..Len(results[i].kv) :
                     ~Has(results[j], results[i].kv[m].k)

\* C17: results with pairwise disjoint keys give the same accumulated tree
\* in whatever order they are merged, by mergeContents one after another or
\* by Object.assign in the order of completion followed by one merge (the
\* same tree: the same paths with the same values).
C17_MergeOrderIndependent ==
    (pure.pc = "ordered" /\ DisjointKeys(pure.chunks)) =>
        /\ \A x, y \in pure.sequential : SameTree(x, y)
        /\ \A x, y \in pure.assigned : SameTree(x, y)

\* Several results with disjoint keys have been merged in every order, and
\* two orders have inserted the keys in different sequence.
C17_Witness ==
    /\ pure.pc = "ordered"
    /\ Len(pure.chunks) >= 3
    /\ DisjointKeys(pure.chunks)
    /\ Cardinality(pure.sequential) >= 2
    /\ Thrown \notin pure.sequential

\* The value at path p of a tree, Undef when the tree has no such leaf.
ValueAt(v, p) == Get(FlatOf(v), p)

\* The step in which call r merges a chunk into the temp file.
MergeStep(r) ==
    /\ runs[r].pc = "translating"
    /\ runs'[r].pc = "delay"
    /\ runs'[r].lastApplied

\* A merge of call r leaves every path that an earlier merge of the same
\* call has set or deleted with the value it has.
C16Step ==
    \A r \in RunIds :
        MergeStep(r) =>
            \A p \in runs[r].written :
                ValueAt(tempFiles'[tempFilePath], p)
                    = ValueAt(tempFiles[tempFilePath], p)

\* C16: the accumulator is write-once per path within a run: no merge of a
\* chunk changes the value at a path that an earlier chunk's merge of the
\* same run has set or deleted, whatever the Translator answers.
C16_AccumulatorWriteOncePerPath == [][C16Step]_vars

\* A call has merged two chunks, the second adding paths to those of the
\* first.
C16_Witness ==
    \E r \in RunIds :
        /\ runs[r].pc = "delay"
        /\ runs[r].lastApplied
        /\ runs[r].mergedChunks >= 2
        /\ IsObj(runs[r].lastNormalized)
        /\ PathsOf(runs[r].lastNormalized) # {}
        /\ PathsOf(runs[r].lastNormalized) # runs[r].written

\* The diff view shown for a merged chunk has, as its updated side, the
\* temp file as that merge leaves it.
C18Step ==
    \A r \in RunIds :
        MergeStep(r) =>
            SameTree(runs'[r].lastPreview, tempFiles'[tempFilePath])

\* C18: the preview shown after a chunk is merged is cumulative: its
\* updated side is the original target tree with the whole accumulator
\* overlaid (the temp file after the merge), not with that chunk alone.
C18_PreviewIsCumulative == [][C18Step]_vars

\* C19: a commit (a step that writes a target file) leaves the snapshot
\* file existing and equal to the base tree.
C19_CommitWritesSnapshot ==
    [][files' # files => snapshotFile' = files'[BaseLanguageFile]]_vars

\* A step either leaves every target file as it is, or is a whole commit:
\* the file at originalFilePath gets the temp file's content and the
\* accumulator is released.  The accumulator and the snapshot change in no
\* other step that touches a target file.
C20Step ==
    files' # files =>
        /\ files' = [files EXCEPT ![originalFilePath] = tempFiles[tempFilePath]]
        /\ tempFilePath' = NoTemp
        /\ originalFilePath' = NoFile
        /\ snapshotFile' = snapshotFile

\* C20: a commit is all or nothing: when the final write of the target
\* file fails, the target file shows no change and the temp file, both
\* paths and the snapshot are as before the attempt.
C20_CommitIsAllOrNothing == [][C20Step]_vars

\* A leaf of the result lies below a leaf of the accumulator, or on a path
\* below which the accumulator has leaves.
LeafBelowLeaf(acc, result) ==
    \E p \in PathsOf(result) : \E q \in PathsOf(acc) :
        ValueAt(result, p) # Null /\ StartsWith(p, q \o Dot)
LeafOntoSubtree(acc, result) ==
    \E p \in PathsOf(result) : \E q \in PathsOf(acc) :
        ValueAt(result, p) # Null /\ StartsWith(q, p \o Dot)

\* C21: merging a normalised result into the accumulator fails when a path
\* of the result would use a leaf of the accumulator as an internal node, or
\* would put a leaf where the accumulator has a subtree with leaves: the merge
\* throws (so applyChunkToFile writes nothing) instead of replacing the leaf
\* or the subtree.
C21_StructuralConflictFails ==
    (/\ pure.pc = "converted"
     /\ pure.out # Thrown
     /\ LeafBelowLeaf(pure.target, pure.out)
            \/ LeafOntoSubtree(pure.target, pure.out))
        => pure.applied = Thrown

\* C22: the provider translate calls outstanding at any moment are at most
\* parallelBatchCount, and translate returns its combined result only when
\* none of the calls it started is outstanding.
C22_ProviderCallsWithinWindow ==
    /\ Cardinality(llm.inFlight) <= llm.parallelBatchCount
    /\ llm.inFlightAtReturn = {}

\* C25: every batch holds at most as many keys as this.batchSize was when
\* the batch was formed, so a batch formed after a halving, also one of the
\* same translate call, holds at most the reduced number; and the batch size
\* is at least 1.
C25_BatchesFollowReducedSize ==
    /\ llm.batchSize >= 1
    /\ \A j \in 1..Len(llm.formed) :
          llm.formed[j].keys <= llm.formed[j].batchSize

\* C23: when the chunk loop of a call has ended, every chunk whose
\* translation was attempted has been counted once, as accepted or as
\* rejected, chunks whose Translator call failed included.
C23_EveryAttemptCounted ==
    \A r \in RunIds :
        (runs[r].pc = "ended" /\ runs[r].endedWith # "return")
            => runs[r].acceptedChunks + runs[r].rejectedChunks
                   = Len(runs[r].attempts)

\* C26: the target file is written by a commit only when the call that made
\* the temp file is no longer in its chunk loop.
C26_CommitOnlyAfterLoop ==
    [][files' # files => (tempFilePath # NoTemp /\ ~InFlight(tempFilePath))]_vars

\* C28: a commit writes only the file that the call which made the temp file
\* was translating.
C28_CommitWritesOwnTarget ==
    [][\A f \in FileNames :
          files'[f] # files[f]
              => (tempFilePath # NoTemp /\ f = runs[tempFilePath].file)]_vars

RECURSIVE WellFormed(_)
\* A tree whose keys are not empty and hold no dot, whose subtrees are not
\* empty, and whose leaves are strings.
WellFormed(v) ==
    \/ v.t = "str"
    \/ /\ v.t = "obj"
       /\ \A i \in 1..Len(v.kv) :
             /\ Len(v.kv[i].k) > 0
             /\ \A j \in 1..Len(v.kv[i].k) : v.kv[i].k[j] # "."
             /\ IsObj(v.kv[i].v) => Len(v.kv[i].v.kv) > 0
             /\ WellFormed(v.kv[i].v)

\* C24: for every well-formed tree, unflattenContent of its
\* flattenNestedContent is the tree itself.
C24_RoundTrip ==
    (pure.pc = "roundTripped" /\ WellFormed(pure.map)) => pure.out = pure.map

\* The round trip of the tree with subtrees at three depths.
C24_Witness ==
    /\ pure.pc = "roundTripped"
    /\ pure.map = DeepTree
    /\ WellFormed(pure.map)
    /\ pure.out = DeepTree

\* C27: for the requested subtree x with the leaf x.y and a response that
\* names the leaf x.x.x.y, the repeated prefix is collapsed until none is
\* left: what normalisation puts into the accumulator is the one path x.y.
C27_RepeatedPrefixCollapsed ==
    (/\ pure.pc = "converted"
     /\ pure.chunk = GroupedChunk
     /\ pure.response = TripledPrefixResponse)
    => PathsOf(pure.merged) = {kXY}

\* The paths a chunk asks for: the keys under which it holds its leaves
\* (deepCompare keeps the full path as the key) and its leaf paths.
RequestedPaths(chunk) == LeafKeys(chunk) \cup PathsOf(chunk)

\* C29: merging a chunk's normalised result changes the accumulator only at
\* leaf paths the chunk asked for: every path whose value after the merge
\* differs from its value before is a requested path.
C29_MergeWritesOnlyRequestedPaths ==
    (pure.pc = "converted" /\ IsObj(pure.applied))
    => \A p \in PathsOf(pure.applied) \cup PathsOf(pure.target) :
           ValueAt(pure.applied, p) # ValueAt(pure.target, p)
               => p \in RequestedPaths(pure.chunk)

\* C30: the progress notification that a call has opened is closed in the
\* end, whatever the outcome of the call, and the call leaves its loop.
C30_ProgressEventuallyClosed ==
    \A r \in RunIds :
        (r \in openProgress) ~> (r \notin openProgress /\ ~InFlight(r))

=============================================================================
